---- MODULE Spec2Model ----
(***************************************************************************)
(* A model of the encoding-parameter and composition-planning layer of     *)
(* video-splitter.                                                         *)
(*                                                                         *)
(* Spec        : one template job, entered through either                  *)
(*               videoprocessor.ApplyTemplate (with its size-constrained   *)
(*               encode loop optimizeVideo) or processor.Templater.Process.*)
(*               The external engine (ffmpeg / ffprobe) is an environment  *)
(*               whose every invocation either fails or yields a file of   *)
(*               some size.                                                *)
(* SpecFit     : the dimension fit and the bitrate plan, pure functions    *)
(*               applied to inputs drawn from bounded sets.                *)
(* SpecSplit   : one split job, entered through either                     *)
(*               videoprocessor.SplitVideo or processor.Splitter.Process.  *)
(* SpecRegistry: the platform registry under Register, Get and             *)
(*               GetSupportedPlatforms calls made one after another.       *)
(***************************************************************************)
EXTENDS Integers, Sequences, FiniteSets, TLC

(***************************************************************************)
(* Bounds of the model.                                                    *)
(***************************************************************************)
\* the longest list of input paths handed to a template job
MaxInputs == 5
\* source widths and heights run over 1..MaxSmallSide and over FrameSides
MaxSmallSide == 8
\* the resolution of time in a split job: ticks to the second
TicksPerSecond == 2
\* source durations run over 0..MaxDurationTicks ticks and over two longer ones
MaxDurationTicks == 9
\* chunk durations run over 1..MaxChunk seconds and over 15 and 100
MaxChunk == 3
\* the distinct profiles that may be registered under one name
MaxProfileIds == 2
\* the Register calls made on the registry
MaxRegisterCalls == 3

(***************************************************************************)
(* Program constants.                                                      *)
(***************************************************************************)
MiB == 1024 * 1024
Template1x1MaxSize == 30 * MiB
Template2x2MaxSize == 8 * MiB
Template3x1MaxSize == 10 * MiB
MaxTotalFileSize == 50 * MiB
MinCRF == 18
MaxCRF == 28
\* the step by which optimizeVideo raises the CRF after an oversized attempt
CRFStep == 5
\* the iteration bound of optimizeVideo's for loop
MaxAttempts == 3

\* A path holds no file or a file of some size.  An engine invocation is atomic:
\* it fails and leaves no output, or it succeeds and leaves a whole file.
NoFile == [exists |-> FALSE]
File(size) == [exists |-> TRUE, size |-> size]
\* a file optimizeVideo wrote, tagged with the CRF of the attempt that wrote it
OvFile(size, crf) == [exists |-> TRUE, size |-> size, crf |-> crf]

TemplateTypes == {"1x1", "2x2", "3x1", "4x4"}

\* the number of inputs a template type uses; 0 for an unsupported type
RequiredInputs(type) ==
  CASE type = "1x1" -> 1
    [] type = "2x2" -> 4
    [] type = "3x1" -> 3
    [] OTHER -> 0

\* the per-cell size ceiling the switch on the template type selects
TargetSize(type) ==
  CASE type = "1x1" -> Template1x1MaxSize
    [] type = "2x2" -> Template2x2MaxSize
    [] type = "3x1" -> Template3x1MaxSize
    [] OTHER -> 0

\* opts.InputPaths = opts.InputPaths[:n]
TruncateLast(paths, n) == SubSeq(paths, Len(paths) - n + 1, Len(paths))
Truncate(paths, n) == SubSeq(paths, 1, n)

\* The switch on opts.TemplateType: the error it returns, or "none".
SwitchErrorExactCount(type, paths) ==
  CASE type = "1x1" -> "none"
    [] type = "2x2" -> IF Len(paths) # 4 THEN "input_count" ELSE "none"
    [] type = "3x1" -> IF Len(paths) # 3 THEN "input_count" ELSE "none"
    [] OTHER -> "unsupported_template"
\* The switch on opts.TemplateType: the error it returns, or "none".
SwitchError(type, paths) ==
  CASE type = "1x1" -> "none"
    [] type = "2x2" -> IF Len(paths) < 4 THEN "input_count" ELSE "none"
    [] type = "3x1" -> IF Len(paths) < 3 THEN "input_count" ELSE "none"
    [] OTHER -> "unsupported_template"

\* The switch on opts.TemplateType: opts.InputPaths as it leaves it.
SwitchPaths(type, paths) ==
  IF RequiredInputs(type) > 0 /\ Len(paths) > RequiredInputs(type)
  THEN Truncate(paths, RequiredInputs(type))
  ELSE paths

\* the lists of input paths a caller hands in: paths are numbered, and a list
\* names them in ascending or in descending order
Ascending(n) == [k \in 1..n |-> k]
Descending(n) == [k \in 1..n |-> n + 1 - k]
InputLists == {Ascending(n) : n \in 0..MaxInputs} \cup {Descending(n) : n \in 0..MaxInputs}

(***************************************************************************)
(* The size-constrained encode loop of optimizeVideo.                      *)
(***************************************************************************)
NextCRFSignSlip(crf) == crf - CRFStep
\* currentCRF += 5; if currentCRF > MaxCRF { currentCRF = MaxCRF }
NextCRF(crf) == IF crf + CRFStep > MaxCRF THEN MaxCRF ELSE crf + CRFStep

\* What one iteration decides once the engine has run: "fail" when the engine
\* failed, "accept" when the loop ends with the file just written, "retry" when
\* another attempt follows.  attempts is the loop counter of this iteration.
VerdictRetryWhileOversized(engineOk, size, target, crf, attempts) ==
  IF ~engineOk THEN "fail"
  ELSE IF size <= target THEN "accept" ELSE "retry"
VerdictFailWhenExhausted(engineOk, size, target, crf, attempts) ==
  IF ~engineOk THEN "fail"
  ELSE IF size <= target THEN "accept"
  ELSE IF crf >= MaxCRF \/ ~(attempts + 1 < MaxAttempts) THEN "fail"
  ELSE "retry"
VerdictOneRetry(engineOk, size, target, crf, attempts) ==
  IF ~engineOk THEN "fail"
  ELSE IF size <= target \/ crf >= MaxCRF THEN "accept"
  ELSE IF attempts + 1 < MaxAttempts - 1 THEN "retry"
  ELSE "accept"
VerdictRetryOnFailure(engineOk, size, target, crf, attempts) ==
  IF ~engineOk THEN (IF attempts + 1 < MaxAttempts THEN "retry" ELSE "fail")
  ELSE IF size <= target \/ crf >= MaxCRF THEN "accept"
  ELSE IF attempts + 1 < MaxAttempts THEN "retry"
  ELSE "accept"
AttemptVerdict(engineOk, size, target, crf, attempts) ==
  IF ~engineOk THEN "fail"
  ELSE IF size <= target \/ crf >= MaxCRF THEN "accept"
  ELSE IF attempts + 1 < MaxAttempts THEN "retry"
  ELSE "accept"

(***************************************************************************)
(* defer os.RemoveAll(tempDir): what a return does to the temp directory.  *)
(***************************************************************************)
CleanupOnSuccessOnly(dir, res) == IF dir = "exists" /\ res = "ok" THEN "removed" ELSE dir
DeferredCleanup(dir, res) == IF dir = "exists" THEN "removed" ELSE dir

(***************************************************************************)
(* The platform registry (internal/platform), the dimension fit and the    *)
(* bitrate plan (internal/ffmpeg, pkg/videoprocessor).                     *)
(***************************************************************************)
\* a bitrate string such as "2M": its digits read as a number, and its suffix
Bitrate(n, suffix) == [parses |-> TRUE, num |-> n, suffix |-> suffix]

Instagram ==
  [name |-> "instagram-reel", maxWidth |-> 1080, maxHeight |-> 1920,
   videoBitrate |-> Bitrate(2, "M"), forcePortrait |-> TRUE]
Reddit ==
  [name |-> "reddit", maxWidth |-> 1920, maxHeight |-> 1080,
   videoBitrate |-> Bitrate(4, "M"), forcePortrait |-> FALSE]
TikTok ==
  [name |-> "tiktok", maxWidth |-> 1080, maxHeight |-> 1920,
   videoBitrate |-> Bitrate(2, "M"), forcePortrait |-> TRUE]
Tryonhaulcentral ==
  [name |-> "tryonhaulcentral", maxWidth |-> 1920, maxHeight |-> 1080,
   videoBitrate |-> Bitrate(4, "M"), forcePortrait |-> TRUE]
TryonhaulcentralPortrait ==
  [name |-> "tryonhaulcentral-portrait", maxWidth |-> 1080, maxHeight |-> 1920,
   videoBitrate |-> Bitrate(4, "M"), forcePortrait |-> TRUE]
TryonhaulcentralLandscape ==
  [name |-> "tryonhaulcentral-landscape", maxWidth |-> 1920, maxHeight |-> 1080,
   videoBitrate |-> Bitrate(4, "M"), forcePortrait |-> FALSE]

\* the platforms registered by the init functions whose type has all the
\* methods of Platform (Twitter has no ForcePortrait)
Platforms ==
  {Instagram, Reddit, TikTok, Tryonhaulcentral, TryonhaulcentralPortrait,
   TryonhaulcentralLandscape}

\* the cell sizes ApplyTemplate hands to optimizeVideo
OutputWidth == 1280
OutputHeight == 720
TemplateDims ==
  {[Width |-> OutputWidth, Height |-> OutputHeight],
   [Width |-> OutputWidth \div 2, Height |-> OutputHeight \div 2],
   [Width |-> OutputWidth \div 3, Height |-> OutputHeight]}

\* the widths and heights a probe reports
FrameSides == {360, 480, 720, 1080, 1280, 1920, 2160, 3840}
Sides == 1..MaxSmallSide \cup FrameSides
\* GetVideoMetadata returns the width and height of the stream as ffprobe gives
\* them, 0 included, without looking at them.  A source of 0x0 is left out: its
\* aspect ratio is NaN, and the int of NaN depends on the platform.
ProbedSides == Sides \cup {0}
IsProbedSize(w, h) == w \in ProbedSides /\ h \in ProbedSides /\ (w > 0 \/ h > 0)

\* int(float64(m) / (float64(w) / float64(h))) is the exact quotient m*h/w
\* rounded down, except where the float64 quotient of an exact division falls
\* just below the integer; these are the arguments over 1..11 and FrameSides at
\* which IEEE-754 double arithmetic does that.
QuotientFallsBelow == {<<1080, 9, 7>>}
TruncQuotient(m, w, h) ==
  IF <<m, w, h>> \in QuotientFallsBelow THEN (m * h) \div w - 1 ELSE (m * h) \div w

\* int(float64(m) * (float64(w) / float64(h))), likewise
ProductFallsBelow == {<<360, 7, 5>>, <<360, 7, 10>>, <<720, 7, 5>>, <<720, 7, 10>>}
TruncProduct(m, w, h) ==
  IF <<m, w, h>> \in ProductFallsBelow THEN (m * w) \div h - 1 ELSE (m * w) \div h

\* x - (x % 2)
Even(x) == x - (x % 2)

ScalePlan(sw, sh, fw, fh) ==
  [kind |-> IF sw = fw /\ sh = fh THEN "scale" ELSE "pad",
   cropWidth |-> 0, cropHeight |-> 0, cropX |-> 0, cropY |-> 0,
   scaleWidth |-> sw, scaleHeight |-> sh, frameWidth |-> fw, frameHeight |-> fh]

\* processNormalVideo: the orientation swap of the platform's box, the scale
\* that keeps the aspect ratio, the rounding to even, and the choice between
\* scale and scale+pad
processNormalVideoFit(plat, w, h) ==
  LET swap == (h > w) # (plat.maxHeight > plat.maxWidth)
      maxWidth == IF swap THEN plat.maxHeight ELSE plat.maxWidth
      maxHeight == IF swap THEN plat.maxWidth ELSE plat.maxHeight
      widthLimited == w * maxHeight > maxWidth * h
      scaleWidth == IF widthLimited THEN maxWidth ELSE TruncProduct(maxHeight, w, h)
      scaleHeight == IF widthLimited THEN TruncQuotient(maxWidth, w, h) ELSE maxHeight
  IN  ScalePlan(Even(scaleWidth), Even(scaleHeight), maxWidth, maxHeight)

\* OptimizeVideo: the same fit, written out again in the source
OptimizeVideoFitHeightFirst(plat, w, h) ==
  LET swap == (h > w) # (plat.maxHeight > plat.maxWidth)
      maxWidth == IF swap THEN plat.maxHeight ELSE plat.maxWidth
      maxHeight == IF swap THEN plat.maxWidth ELSE plat.maxHeight
      widthLimited == h = 0 \/ (w > 0 /\ w * maxHeight < maxWidth * h)
      scaleWidth == IF widthLimited THEN maxWidth ELSE TruncProduct(maxHeight, w, h)
      scaleHeight == IF widthLimited THEN TruncQuotient(maxWidth, w, h) ELSE maxHeight
  IN  ScalePlan(Even(scaleWidth), Even(scaleHeight), maxWidth, maxHeight)
OptimizeVideoFit(plat, w, h) ==
  LET swap == (h > w) # (plat.maxHeight > plat.maxWidth)
      maxWidth == IF swap THEN plat.maxHeight ELSE plat.maxWidth
      maxHeight == IF swap THEN plat.maxWidth ELSE plat.maxHeight
      widthLimited == w * maxHeight > maxWidth * h
      scaleWidth == IF widthLimited THEN maxWidth ELSE TruncProduct(maxHeight, w, h)
      scaleHeight == IF widthLimited THEN TruncQuotient(maxWidth, w, h) ELSE maxHeight
  IN  ScalePlan(Even(scaleWidth), Even(scaleHeight), maxWidth, maxHeight)

\* ProcessForPlatform: the centre crop to 9:16 and the scale to the platform's
\* box for a landscape source on a forced-portrait platform, and
\* processNormalVideo otherwise
ProcessForPlatformFitNeverCrops(plat, w, h) == processNormalVideoFit(plat, w, h)
ProcessForPlatformFitWideCrop(plat, w, h) ==
  IF plat.forcePortrait /\ w > h
  THEN LET cropWidth == (h * 9) \div 16 + 1
       IN  [kind |-> "crop",
            cropWidth |-> cropWidth, cropHeight |-> h,
            cropX |-> (w - cropWidth) \div 2, cropY |-> 0,
            scaleWidth |-> plat.maxWidth, scaleHeight |-> plat.maxHeight,
            frameWidth |-> plat.maxWidth, frameHeight |-> plat.maxHeight]
  ELSE processNormalVideoFit(plat, w, h)
ProcessForPlatformFit(plat, w, h) ==
  IF plat.forcePortrait /\ w > h
  THEN LET cropWidth == (h * 9) \div 16
       IN  [kind |-> "crop",
            cropWidth |-> cropWidth, cropHeight |-> h,
            cropX |-> (w - cropWidth) \div 2, cropY |-> 0,
            scaleWidth |-> plat.maxWidth, scaleHeight |-> plat.maxHeight,
            frameWidth |-> plat.maxWidth, frameHeight |-> plat.maxHeight]
  ELSE processNormalVideoFit(plat, w, h)

\* ensureValidDimensions: round down to even, and no less than 2
ensureValidDimensions(dims) ==
  LET width == IF dims.Width % 2 # 0 THEN dims.Width - 1 ELSE dims.Width
      height == IF dims.Height % 2 # 0 THEN dims.Height - 1 ELSE dims.Height
  IN  [Width |-> IF width < 2 THEN 2 ELSE width,
       Height |-> IF height < 2 THEN 2 ELSE height]

\* calculateOptimalDimensions of pkg/videoprocessor
calculateOptimalDimensions(srcWidth, srcHeight, targetDims) ==
  LET widthLimited == srcWidth * targetDims.Height > targetDims.Width * srcHeight
      h0 == TruncQuotient(targetDims.Width, srcWidth, srcHeight)
      w0 == TruncProduct(targetDims.Height, srcWidth, srcHeight)
  IN  ensureValidDimensions(
        IF widthLimited
        THEN [Width |-> targetDims.Width, Height |-> IF h0 % 2 # 0 THEN h0 - 1 ELSE h0]
        ELSE [Width |-> IF w0 % 2 # 0 THEN w0 - 1 ELSE w0, Height |-> targetDims.Height])

\* optimizeVideo: the scale to the optimal dimensions and the pad to the cell
\* when one of the four pads is positive
optimizeVideoFit(srcWidth, srcHeight, targetDims) ==
  LET optimalDims == calculateOptimalDimensions(srcWidth, srcHeight, targetDims)
      padTop == (targetDims.Height - optimalDims.Height) \div 2
      padBottom == targetDims.Height - optimalDims.Height - padTop
      padLeft == (targetDims.Width - optimalDims.Width) \div 2
      padRight == targetDims.Width - optimalDims.Width - padLeft
      padded == padTop > 0 \/ padBottom > 0 \/ padLeft > 0 \/ padRight > 0
  IN  [kind |-> IF padded THEN "pad" ELSE "scale",
       cropWidth |-> 0, cropHeight |-> 0, cropX |-> 0, cropY |-> 0,
       scaleWidth |-> optimalDims.Width, scaleHeight |-> optimalDims.Height,
       frameWidth |-> IF padded THEN targetDims.Width ELSE optimalDims.Width,
       frameHeight |-> IF padded THEN targetDims.Height ELSE optimalDims.Height]

\* extractBitrateValue: the number before the suffix, 2 when it does not parse,
\* and the number divided by 1024 under the suffix k
extractBitrateValue(bitrate) ==
  IF ~bitrate.parses THEN 2
  ELSE IF bitrate.suffix = "M" THEN bitrate.num
  ELSE IF bitrate.suffix = "k" THEN bitrate.num \div 1024
  ELSE bitrate.num

\* what getBitrate returns: an error (and 0), or the number it parsed or
\* estimated, in bits per second, of either sign
ProbedBitrates == {-1, 0, 1, 200000, 500000, 1904761, 1904762, 3809523, 3809524, 10000000}
BitrateProbes ==
  {[ok |-> FALSE, bitrate |-> 0]} \cup {[ok |-> TRUE, bitrate |-> b] : b \in ProbedBitrates}

\* the platform bitrate in bits per second, capped at int64(float64(input) * 1.05)
\* when the input bitrate is greater than 0
TargetBitrateLooseCap(plat, inputBitrate) ==
  LET platformBitrate == extractBitrateValue(plat.videoBitrate) * 1000000
      maxBitrate == (inputBitrate * 15) \div 10
  IN  IF inputBitrate > 0 /\ platformBitrate > maxBitrate THEN maxBitrate
      ELSE platformBitrate
TargetBitrate(plat, inputBitrate) ==
  LET platformBitrate == extractBitrateValue(plat.videoBitrate) * 1000000
      maxBitrate == (inputBitrate * 105) \div 100
  IN  IF inputBitrate > 0 /\ platformBitrate > maxBitrate THEN maxBitrate
      ELSE platformBitrate

\* The value in bits per second of the string handed to the engine as b:v.
\* The crop path of ProcessForPlatform always formats in M.
CropBitrateStr(targetBitrate) == Bitrate(targetBitrate \div 1000000, "M")
\* processNormalVideo and OptimizeVideo format in M from 1000000 up, in k below.
NormalBitrateStr(targetBitrate) ==
  IF targetBitrate >= 1000000 THEN Bitrate(targetBitrate \div 1000000, "M")
  ELSE Bitrate(targetBitrate \div 1000, "k")
\* bufsize, set with maxrate for libx264, the codec of every registered
\* platform: fmt.Sprintf("%dM", 2*targetBitrate/1000000)
BufsizeStr(targetBitrate) == Bitrate((2 * targetBitrate) \div 1000000, "M")
\* how the engine reads such a string
Denotes(str) == IF str.suffix = "M" THEN str.num * 1000000
                ELSE IF str.suffix = "k" THEN str.num * 1000 ELSE str.num

VARIABLES
  pc,             \* the position of the job
  entry,          \* the entry point called: "ApplyTemplate", "Process" or "none"
  templateType,   \* opts.TemplateType
  givenPaths,     \* the input paths as the caller passed them
  inputPaths,     \* opts.InputPaths (the switch truncates it in place)
  obscurify,      \* opts.Obscurify
  outro,          \* len(opts.OutroLines) > 0
  forcePortrait,  \* t.platform.ForcePortrait()
  formatSupported, \* opts.OutputFormat is "", "webm" or "mp4"
  tempDir,        \* "none", "exists" or "removed"
  cell,           \* the index i of the per-input loop
  optimizedPaths, \* for each optimized file, the input path it was made from
  engineLog,      \* every engine invocation so far: <<operation, input path>>
  mainFile,       \* the file at mainVideoPath, inside the temp directory
  outFile,        \* the file at opts.OutputPath
  tightenings,    \* re-encodes of the composed artifact so far
  result,         \* "none" while running, "ok", or the error returned
  ovCRF,          \* optimizeVideo: currentCRF
  ovAttempts,     \* optimizeVideo: the loop counter attempts
  ovCrfs,         \* optimizeVideo: the CRF of each encode invocation of this run
  ovSizes,        \* optimizeVideo: the output size of each successful attempt
  ovOut,          \* optimizeVideo: the file at params.OutputPath
  ovResult,       \* optimizeVideo: "none", "running", "ok" or "error"
  fit,            \* the dimension-fit and bitrate component (see SpecFit)
  split,          \* the split job (see SpecSplit)
  reg             \* the platform registry (see SpecRegistry)

jobVars == <<pc, entry, templateType, givenPaths, inputPaths, obscurify, outro,
             forcePortrait, formatSupported, tempDir, cell, optimizedPaths, engineLog, mainFile,
             outFile, tightenings, result>>
ovVars == <<ovCRF, ovAttempts, ovCrfs, ovSizes, ovOut, ovResult>>
vars == <<jobVars, ovVars, fit, split, reg>>

FitIdle == [phase |-> "idle"]
SplitIdle == [pc |-> "idle"]
\* var platforms = make(map[string]Platform); no call made yet
RegistryEmpty == [platforms |-> <<>>, log |-> <<>>, call |-> [op |-> "none"]]

JobInit ==
  /\ pc = "idle"
  /\ entry = "none"
  /\ templateType = "1x1"
  /\ givenPaths = <<>>
  /\ inputPaths = <<>>
  /\ obscurify = FALSE
  /\ outro = FALSE
  /\ forcePortrait = FALSE
  /\ formatSupported = TRUE
  /\ tempDir = "none"
  /\ cell = 0
  /\ optimizedPaths = <<>>
  /\ engineLog = <<>>
  /\ mainFile = NoFile
  /\ outFile = NoFile
  /\ tightenings = 0
  /\ result = "none"
  /\ ovCRF = MinCRF
  /\ ovAttempts = 0
  /\ ovCrfs = <<>>
  /\ ovSizes = <<>>
  /\ ovOut = NoFile
  /\ ovResult = "none"

Init == JobInit /\ fit = FitIdle /\ split = SplitIdle /\ reg = RegistryEmpty

\* return res: the deferred RemoveAll runs, the job is over
Return(res) ==
  /\ pc' = "returned"
  /\ result' = res
  /\ tempDir' = DeferredCleanup(tempDir, res)

Engine(op, path) == engineLog' = Append(engineLog, <<op, path>>)

\* The head of ApplyTemplate and of Templater.Process, which is the same code:
\* the empty-input check, MkdirTemp, the deferred RemoveAll and the switch on the
\* template type.
Begin(name, type, paths, obs, out, portrait, format, mkdirOk) ==
  /\ pc = "idle"
  /\ entry' = name
  /\ templateType' = type
  /\ givenPaths' = paths
  /\ obscurify' = obs
  /\ outro' = out
  /\ forcePortrait' = portrait
  /\ formatSupported' = format
  /\ IF Len(paths) = 0
     THEN /\ pc' = "returned" /\ result' = "no_input"
          /\ UNCHANGED <<tempDir, inputPaths>>
     ELSE IF ~mkdirOk
     THEN /\ pc' = "returned" /\ result' = "mkdir_failed"
          /\ UNCHANGED <<tempDir, inputPaths>>
     ELSE IF SwitchError(type, paths) # "none"
     THEN /\ pc' = "returned" /\ result' = SwitchError(type, paths)
          /\ tempDir' = DeferredCleanup("exists", SwitchError(type, paths))
          /\ UNCHANGED inputPaths
     ELSE /\ pc' = "cell" /\ result' = "none"
          /\ tempDir' = "exists"
          /\ inputPaths' = SwitchPaths(type, paths)
  /\ UNCHANGED <<cell, optimizedPaths, engineLog, mainFile, outFile, tightenings,
                 ovVars, fit, split, reg>>

\* what the steps between Begin and the return leave alone
options == <<entry, templateType, givenPaths, inputPaths, obscurify, outro, forcePortrait,
             formatSupported>>

\* the sizes the engine may give a file that is measured against ceiling
SizesAround(ceiling) == {ceiling, ceiling + 1}

(***************************************************************************)
(* videoprocessor.ApplyTemplate                                            *)
(***************************************************************************)
ApplyTemplate_Begin ==
  \E type \in TemplateTypes, paths \in InputLists, obs \in BOOLEAN, mkdirOk \in BOOLEAN :
    Begin("ApplyTemplate", type, paths, obs, FALSE, FALSE, TRUE, mkdirOk)

\* applyObscurifyEffects(inputPath, obscurifiedPath): a probe and an encode
ApplyTemplate_Obscurify ==
  /\ entry = "ApplyTemplate" /\ pc = "cell"
  /\ cell < Len(inputPaths) /\ obscurify
  /\ Engine("obscurify", inputPaths[cell + 1])
  /\ \E ok \in BOOLEAN :
       IF ok THEN pc' = "optimize" /\ UNCHANGED <<result, tempDir>>
             ELSE Return("obscurify_failed")
  /\ UNCHANGED <<options, cell, optimizedPaths, mainFile, outFile, tightenings, ovVars, fit, split, reg>>

\* optimizeVideo up to its loop: the probe of the input and the initial CRF
optimizeVideo_Begin ==
  /\ entry = "ApplyTemplate"
  /\ cell < Len(inputPaths)
  /\ pc = "optimize" \/ (pc = "cell" /\ ~obscurify)
  /\ optimizedPaths' = Append(optimizedPaths, inputPaths[cell + 1])
  /\ Engine("probe", inputPaths[cell + 1])
  /\ ovCRF' = MinCRF
  /\ ovAttempts' = 0
  /\ ovCrfs' = <<>>
  /\ ovSizes' = <<>>
  /\ ovOut' = NoFile
  /\ \E ok \in BOOLEAN :
       IF ok THEN /\ pc' = "ov_loop" /\ ovResult' = "running"
                  /\ UNCHANGED <<result, tempDir>>
             ELSE /\ ovResult' = "error"
                  /\ Return("optimize_failed")
  /\ UNCHANGED <<options, cell, mainFile, outFile, tightenings, fit, split, reg>>

\* one iteration of optimizeVideo's loop, and what ApplyTemplate does with the
\* value optimizeVideo returns
optimizeVideo_Attempt ==
  /\ pc = "ov_loop"
  /\ Engine("optimize", inputPaths[cell + 1])
  /\ ovCrfs' = Append(ovCrfs, ovCRF)
  /\ \E engineOk \in BOOLEAN, size \in SizesAround(TargetSize(templateType)) :
       LET verdict == AttemptVerdict(engineOk, size, TargetSize(templateType),
                                     ovCRF, ovAttempts)
       IN  /\ IF engineOk
              THEN ovOut' = OvFile(size, ovCRF) /\ ovSizes' = Append(ovSizes, size)
              ELSE ovOut' \in {ovOut, NoFile} /\ UNCHANGED ovSizes
           /\ CASE verdict = "fail" ->
                     /\ ovResult' = "error"
                     /\ Return("optimize_failed")
                     /\ UNCHANGED <<ovCRF, ovAttempts, cell>>
                [] verdict = "accept" ->
                     /\ ovResult' = "ok"
                     /\ pc' = "cell"
                     /\ cell' = cell + 1
                     /\ UNCHANGED <<ovCRF, ovAttempts, result, tempDir>>
                [] verdict = "retry" ->
                     /\ ovCRF' = NextCRF(ovCRF)
                     /\ ovAttempts' = ovAttempts + 1
                     /\ UNCHANGED <<pc, ovResult, cell, result, tempDir>>
  /\ UNCHANGED <<options, optimizedPaths, mainFile, outFile, tightenings, fit, split, reg>>

\* the composition written straight to opts.OutputPath, the Stat of it and the
\* comparison with MaxTotalFileSize
ApplyTemplate_Compose ==
  /\ entry = "ApplyTemplate" /\ pc = "cell"
  /\ cell >= Len(inputPaths)
  /\ Engine("compose", 0)
  /\ \E ok \in BOOLEAN, size \in SizesAround(MaxTotalFileSize) :
       IF ~ok
       THEN /\ outFile' = NoFile
            /\ Return("compose_failed")
       ELSE /\ outFile' = File(size)
            /\ IF size > MaxTotalFileSize
               THEN pc' = "tighten" /\ UNCHANGED <<result, tempDir>>
               ELSE Return("ok")
  /\ UNCHANGED <<options, cell, optimizedPaths, mainFile, tightenings, ovVars, fit, split, reg>>

\* the re-encode of the composed artifact into OutputPath.tmp and the rename
\* over opts.OutputPath
ApplyTemplate_Tighten ==
  /\ entry = "ApplyTemplate" /\ pc = "tighten"
  /\ Engine("reencode", 0)
  /\ tightenings' = tightenings + 1
  /\ \E ok \in BOOLEAN, renameOk \in BOOLEAN, size \in SizesAround(MaxTotalFileSize) :
       IF ~ok
       THEN UNCHANGED outFile /\ Return("reencode_failed")
       ELSE IF ~renameOk
       THEN UNCHANGED outFile /\ Return("rename_failed")
       ELSE outFile' = File(size) /\ Return("ok")
  /\ UNCHANGED <<options, cell, optimizedPaths, mainFile, ovVars, fit, split, reg>>

(***************************************************************************)
(* processor.Templater.Process                                             *)
(***************************************************************************)
Process_Begin ==
  \E type \in TemplateTypes, paths \in InputLists, obs \in BOOLEAN, out \in BOOLEAN,
     portrait \in BOOLEAN, format \in BOOLEAN, mkdirOk \in BOOLEAN :
    Begin("Process", type, paths, obs, out, portrait, format, mkdirOk)

\* where the per-input loop body goes after the probe or the crop
AfterCrop == IF obscurify THEN "obscurify" ELSE "optimize"

\* GetVideoMetadata(inputPath) at the head of the loop body, and the test
\* plat.ForcePortrait() && metadata.Width > metadata.Height
Process_Probe ==
  /\ entry = "Process" /\ pc = "cell"
  /\ cell < Len(inputPaths)
  /\ Engine("probe", inputPaths[cell + 1])
  /\ \E ok \in BOOLEAN, landscape \in BOOLEAN :
       IF ~ok THEN Return("metadata_failed")
       ELSE /\ pc' = IF forcePortrait /\ landscape THEN "crop" ELSE AfterCrop
            /\ UNCHANGED <<result, tempDir>>
  /\ UNCHANGED <<options, cell, optimizedPaths, mainFile, outFile, tightenings, ovVars, fit, split, reg>>

\* ffmpeg.Probe(inputPath) and ApplyPlatformCrop into the temp directory
Process_Crop ==
  /\ entry = "Process" /\ pc = "crop"
  /\ Engine("crop", inputPaths[cell + 1])
  /\ \E ok \in BOOLEAN :
       IF ok THEN pc' = AfterCrop /\ UNCHANGED <<result, tempDir>>
             ELSE Return("crop_failed")
  /\ UNCHANGED <<options, cell, optimizedPaths, mainFile, outFile, tightenings, ovVars, fit, split, reg>>

\* t.ApplyObscurifyEffects(croppedPath, obscurifiedPath): the test of the output
\* format, then the probe and the encode
Process_Obscurify ==
  /\ entry = "Process" /\ pc = "obscurify"
  /\ IF ~formatSupported
     THEN Return("unsupported_format") /\ UNCHANGED engineLog
     ELSE /\ Engine("obscurify", inputPaths[cell + 1])
          /\ \E ok \in BOOLEAN :
               IF ok THEN pc' = "optimize" /\ UNCHANGED <<result, tempDir>>
                     ELSE Return("obscurify_failed")
  /\ UNCHANGED <<options, cell, optimizedPaths, mainFile, outFile, tightenings, ovVars, fit, split, reg>>

\* t.ffmpeg.OptimizeVideo(processedPath, optimizedPath, ...): one encode
Process_OptimizeVideo ==
  /\ entry = "Process" /\ pc = "optimize"
  /\ optimizedPaths' = Append(optimizedPaths, inputPaths[cell + 1])
  /\ Engine("optimize", inputPaths[cell + 1])
  /\ \E ok \in BOOLEAN :
       IF ok THEN /\ pc' = "cell" /\ cell' = cell + 1
                  /\ UNCHANGED <<result, tempDir>>
             ELSE Return("optimize_failed") /\ UNCHANGED cell
  /\ UNCHANGED <<options, mainFile, outFile, tightenings, ovVars, fit, split, reg>>

\* the composition written to mainVideoPath in the temp directory
Process_Compose ==
  /\ entry = "Process" /\ pc = "cell"
  /\ cell >= Len(inputPaths)
  /\ Engine("compose", 0)
  /\ \E ok \in BOOLEAN, size \in SizesAround(MaxTotalFileSize) :
       IF ~ok
       THEN /\ mainFile' = NoFile
            /\ Return("compose_failed")
       ELSE /\ mainFile' = File(size)
            /\ pc' = IF outro THEN "outro" ELSE "rename"
            /\ UNCHANGED <<result, tempDir>>
  /\ UNCHANGED <<options, cell, optimizedPaths, outFile, tightenings, ovVars, fit, split, reg>>

\* t.createOutroVideo(tempDir, mainVideoPath): a probe of the main segment and
\* the encode of the title card
Process_Outro ==
  /\ entry = "Process" /\ pc = "outro"
  /\ Engine("outro", 0)
  /\ \E ok \in BOOLEAN :
       IF ok THEN pc' = "concat" /\ UNCHANGED <<result, tempDir>>
             ELSE Return("outro_failed")
  /\ UNCHANGED <<options, cell, optimizedPaths, mainFile, outFile, tightenings, ovVars, fit, split, reg>>

\* the concat list written to the temp directory and the stream-copy
\* concatenation written to opts.OutputPath
Process_Concat ==
  /\ entry = "Process" /\ pc = "concat"
  /\ \E listOk \in BOOLEAN, ok \in BOOLEAN, size \in SizesAround(MaxTotalFileSize) :
       IF ~listOk
       THEN /\ Return("concat_list_failed")
            /\ UNCHANGED <<outFile, engineLog>>
       ELSE /\ Engine("concat", 0)
            /\ IF ~ok
               THEN /\ outFile' = NoFile
                    /\ Return("concat_failed")
               ELSE /\ outFile' = File(size)
                    /\ pc' = "final"
                    /\ UNCHANGED <<result, tempDir>>
  /\ UNCHANGED <<options, cell, optimizedPaths, mainFile, tightenings, ovVars, fit, split, reg>>

\* os.Rename(mainVideoPath, t.opts.OutputPath)
Process_Rename ==
  /\ entry = "Process" /\ pc = "rename"
  /\ \E ok \in BOOLEAN :
       IF ok THEN /\ outFile' = mainFile /\ mainFile' = NoFile
                  /\ pc' = "final"
                  /\ UNCHANGED <<result, tempDir>>
             ELSE /\ Return("rename_failed")
                  /\ UNCHANGED <<outFile, mainFile>>
  /\ UNCHANGED <<options, cell, optimizedPaths, engineLog, tightenings, ovVars, fit, split, reg>>

\* the Stat of opts.OutputPath, the comparison with MaxTotalFileSize and the
\* probe of the final file
Process_Final ==
  /\ entry = "Process" /\ pc = "final"
  /\ IF outFile.size > MaxTotalFileSize
     THEN Return("too_large") /\ UNCHANGED engineLog
     ELSE /\ Engine("probe", 0)
          /\ \E ok \in BOOLEAN :
               IF ok THEN Return("ok") ELSE Return("metadata_failed")
  /\ UNCHANGED <<options, cell, optimizedPaths, mainFile, outFile, tightenings, ovVars, fit, split, reg>>

JobNext ==
  \/ ApplyTemplate_Begin
  \/ ApplyTemplate_Obscurify
  \/ optimizeVideo_Begin
  \/ optimizeVideo_Attempt
  \/ ApplyTemplate_Compose
  \/ ApplyTemplate_Tighten
  \/ Process_Begin
  \/ Process_Probe
  \/ Process_Crop
  \/ Process_Obscurify
  \/ Process_OptimizeVideo
  \/ Process_Compose
  \/ Process_Outro
  \/ Process_Concat
  \/ Process_Rename
  \/ Process_Final

Next == JobNext

Spec == Init /\ [][Next]_vars

(***************************************************************************)
(* Properties of the template job.                                         *)
(***************************************************************************)
ovTarget == TargetSize(templateType)
ovReturned == ovResult \in {"ok", "error"}
\* every attempt of this run of optimizeVideo produced a file over the ceiling
ovAllOversized ==
  /\ Len(ovSizes) >= 1
  /\ Len(ovSizes) = Len(ovCrfs)
  /\ \A k \in 1..Len(ovSizes) : ovSizes[k] > ovTarget

\* C1: one run of optimizeVideo makes at most 3 engine encode invocations,
\* whatever sizes the engine produces: while the loop is running every encode
\* made so far has used up one of its 3 iterations, so no 4th attempt follows
\* and the loop ends.
C1_AtMostThreeEncodes ==
  /\ Len(ovCrfs) <= 3
  /\ pc = "ov_loop" => (Len(ovCrfs) = ovAttempts /\ ovAttempts < 3)

\* a run of optimizeVideo that used all three attempts and has returned
C1_Witness == ovReturned /\ Len(ovCrfs) = 3

\* C2: the CRFs handed to the engine in one run of optimizeVideo lie between 18
\* and 28 and never decrease from one attempt to the next, and an attempt made
\* with CRF 28 is the last one: nothing is escalated past it.
C2_CrfMonotoneWithinRange ==
  /\ ovCRF >= 18 /\ ovCRF <= 28
  /\ \A k \in 1..Len(ovCrfs) :
       /\ ovCrfs[k] >= 18 /\ ovCrfs[k] <= 28
       /\ k < Len(ovCrfs) => (ovCrfs[k] <= ovCrfs[k + 1] /\ ovCrfs[k] # 28)

\* a run that escalated twice and made its last attempt with CRF 28
C2_Witness == ovCrfs = <<18, 23, 28>>

\* C3: when every attempt's output exceeds the size ceiling, optimizeVideo
\* returns success and the file of its last attempt is at the output path.
C3_OversizedStillSucceeds ==
  (ovReturned /\ ovAllOversized) =>
    /\ ovResult = "ok"
    /\ ovOut = OvFile(ovSizes[Len(ovSizes)], ovCrfs[Len(ovCrfs)])

\* a run that has returned success after three oversized attempts
C3_Witness == ovResult = "ok" /\ ovAllOversized /\ Len(ovSizes) = 3 /\ ovOut.exists

\* C4: a template job never returns success with a final artifact larger than
\* MaxTotalFileSize.
C4_NoOversizedSuccess ==
  (pc = "returned" /\ result = "ok") =>
    (outFile.exists /\ outFile.size <= MaxTotalFileSize)

\* C5: whenever a template job returns an error, no file written by the job
\* exists at opts.OutputPath.
C5_NoOutputOnError ==
  (pc = "returned" /\ result # "ok") => ~outFile.exists

\* C6: a template job that created its temp directory has removed it by the time
\* it returns, whatever it returns.
C6_TempDirRemoved == pc = "returned" => tempDir # "exists"

\* a job that failed the final size check after creating its temp directory
C6_Witness == pc = "returned" /\ result = "too_large" /\ tempDir = "removed"

\* the inputs a job of this template type uses: the first N as given
FirstN == SubSeq(givenPaths, 1, RequiredInputs(templateType))
IsPrefix(p, q) == Len(p) <= Len(q) /\ \A k \in 1..Len(p) : p[k] = q[k]
\* the input paths the engine has been invoked on, in order of invocation
LogPaths == {engineLog[k][2] : k \in 1..Len(engineLog)} \ {0}

\* C10: for a template type that requires N inputs, a job given at least N
\* inputs hands the engine the first N in their given order and no other, and a
\* job given fewer than N returns an error without any engine invocation (the
\* input-count error whenever the temp directory could be created).
C10_FirstNInputsOrCountError ==
  RequiredInputs(templateType) > 0 /\ entry # "none" =>
    IF Len(givenPaths) >= RequiredInputs(templateType)
    THEN /\ IsPrefix(optimizedPaths, FirstN)
         /\ LogPaths \subseteq {FirstN[k] : k \in 1..Len(FirstN)}
         /\ result = "ok" => optimizedPaths = FirstN
    ELSE /\ pc = "returned"
         /\ engineLog = <<>>
         /\ result = IF Len(givenPaths) = 0 THEN "no_input"
                     ELSE IF tempDir = "none" THEN "mkdir_failed"
                     ELSE "input_count"

\* a 3x1 job of Templater.Process given five inputs in descending order that
\* succeeded
C10_Witness ==
  /\ entry = "Process" /\ pc = "returned" /\ result = "ok"
  /\ templateType = "3x1" /\ givenPaths = <<5, 4, 3, 2, 1>>
  /\ optimizedPaths = <<5, 4, 3>>

\* a 2x2 job given three inputs that was rejected
C10_WitnessRejected ==
  pc = "returned" /\ result = "input_count" /\ templateType = "2x2" /\ Len(givenPaths) = 3

(***************************************************************************)
(* SpecFit: the dimension fit and the bitrate plan applied to every source *)
(* size over Sides, every registered platform and every probed bitrate.    *)
(* Each behaviour is one call: the functions keep no state between calls.   *)
(***************************************************************************)
NoProbe == [ok |-> FALSE, bitrate |-> 0]

\* Processor.ProcessForPlatform on a source of w x h whose bitrate probe gave probe
Fit_ProcessForPlatform ==
  /\ fit = FitIdle
  /\ \E plat \in Platforms, w \in ProbedSides, h \in ProbedSides, probe \in BitrateProbes :
       IsProbedSize(w, h) /\
       LET plan == ProcessForPlatformFit(plat, w, h)
           target == TargetBitrate(plat, probe.bitrate)
       IN  fit' = [phase |-> "done", fn |-> "ProcessForPlatform", plat |-> plat,
                   box |-> [Width |-> plat.maxWidth, Height |-> plat.maxHeight],
                   srcWidth |-> w, srcHeight |-> h, probe |-> probe, plan |-> plan,
                   targetBitrate |-> target,
                   bitrateStr |-> IF plan.kind = "crop" THEN CropBitrateStr(target)
                                  ELSE NormalBitrateStr(target),
                   bufsizeStr |-> BufsizeStr(target)]
  /\ UNCHANGED <<jobVars, ovVars, split, reg>>

\* Processor.OptimizeVideo on a source of w x h
Fit_OptimizeVideo ==
  /\ fit = FitIdle
  /\ \E plat \in Platforms, w \in ProbedSides, h \in ProbedSides, probe \in BitrateProbes :
       IsProbedSize(w, h) /\
       LET target == TargetBitrate(plat, probe.bitrate)
       IN  fit' = [phase |-> "done", fn |-> "OptimizeVideo", plat |-> plat,
                   box |-> [Width |-> plat.maxWidth, Height |-> plat.maxHeight],
                   srcWidth |-> w, srcHeight |-> h, probe |-> probe,
                   plan |-> OptimizeVideoFit(plat, w, h),
                   targetBitrate |-> target,
                   bitrateStr |-> NormalBitrateStr(target)]
  /\ UNCHANGED <<jobVars, ovVars, split, reg>>

\* optimizeVideo of pkg/videoprocessor on a source of w x h and a template cell;
\* it encodes by CRF and plans no bitrate
Fit_optimizeVideo ==
  /\ fit = FitIdle
  /\ \E dims \in TemplateDims, w \in ProbedSides, h \in ProbedSides :
       IsProbedSize(w, h) /\
       fit' = [phase |-> "done", fn |-> "optimizeVideo", box |-> dims,
               srcWidth |-> w, srcHeight |-> h, probe |-> NoProbe,
               plan |-> optimizeVideoFit(w, h, dims)]
  /\ UNCHANGED <<jobVars, ovVars, split, reg>>

\* the bitrate strings a Platform can return from GetVideoBitrate: digits under
\* a suffix M or k, and strings whose numeric part strconv.Atoi rejects (such
\* as "2.5M")
MegaDigits == {1, 2, 4, 8, 50}
KiloDigits == {1, 128, 192, 500, 1000, 1023, 1024, 2048, 2500, 4000}
BitrateStrings ==
  {Bitrate(n, "M") : n \in MegaDigits} \cup {Bitrate(n, "k") : n \in KiloDigits}
    \cup {[parses |-> FALSE, num |-> 0, suffix |-> sfx] : sfx \in {"M", "k"}}

\* platformBitrate := extractBitrateValue(plat.GetVideoBitrate()) * 1000000
Fit_extractBitrateValue ==
  /\ fit = FitIdle
  /\ \E str \in BitrateStrings :
       fit' = [phase |-> "parsed", fn |-> "extractBitrateValue", str |-> str,
               platformBitrate |-> extractBitrateValue(str) * 1000000]
  /\ UNCHANGED <<jobVars, ovVars, split, reg>>

\* the per-cell target the switch on the template type sets for each type
TargetDims(type) ==
  IF type = "1x1" THEN [Width |-> OutputWidth, Height |-> OutputHeight]
  ELSE IF type = "2x2" THEN [Width |-> OutputWidth \div 2, Height |-> OutputHeight \div 2]
  ELSE [Width |-> OutputWidth \div 3, Height |-> OutputHeight]

\* the frame of the filters hstack and vstack over streams of equal height
\* (equal width)
RECURSIVE SumWidth(_)
SumWidth(streams) ==
  IF streams = <<>> THEN 0 ELSE Head(streams).Width + SumWidth(Tail(streams))
hstack(streams) == [Width |-> SumWidth(streams), Height |-> streams[1].Height]
vstack(top, bottom) == [Width |-> top.Width, Height |-> top.Height + bottom.Height]

\* process2x2Template: every input scaled by the filter scale=960:540, two
\* rows of two stacked horizontally, the rows stacked vertically
process2x2Template(inputs) ==
  LET scaled == [i \in 1..4 |-> [Width |-> 960, Height |-> 540]]
      topRow == hstack(<<scaled[1], scaled[2]>>)
      bottomRow == hstack(<<scaled[3], scaled[4]>>)
  IN  [scaled |-> scaled, frame |-> vstack(topRow, bottomRow)]
\* process3x1Template: every input scaled by the filter scale=640:720, the
\* three stacked horizontally
process3x1Template(inputs) ==
  LET scaled == [i \in 1..3 |-> [Width |-> 640, Height |-> 720]]
  IN  [scaled |-> scaled, frame |-> hstack(scaled)]

\* the composition graph of a 2x2 or 3x1 job over cells that optimizeVideo
\* fitted from a source of w x h to the per-cell target
Fit_processTemplate ==
  /\ fit = FitIdle
  /\ \E type \in {"2x2", "3x1"}, w \in Sides, h \in Sides :
       LET target == TargetDims(type)
           cellPlan == optimizeVideoFit(w, h, target)
           inputs == [i \in 1..RequiredInputs(type) |->
                        [Width |-> cellPlan.frameWidth, Height |-> cellPlan.frameHeight]]
           graph == IF type = "2x2" THEN process2x2Template(inputs)
                    ELSE process3x1Template(inputs)
       IN  fit' = [phase |-> "composed", fn |-> "processTemplate", templateType |-> type,
                   targetDims |-> target, inputs |-> inputs,
                   scaled |-> graph.scaled, frame |-> graph.frame]
  /\ UNCHANGED <<jobVars, ovVars, split, reg>>

\* GetCodecSettings(outputFormat).VideoCodec: the preset of the format, and the
\* webm preset for a format that has none
OutputFormats == {"", "webm", "mp4", "MP4"}
ToLower(format) == IF format = "MP4" THEN "mp4" ELSE format
VideoCodec(format) == IF format = "mp4" THEN "libx264" ELSE "libvpx-vp9"

\* createOutroVideo: the size of the title card, from the probed size of the
\* main segment and the platform's ForcePortrait()
createOutroVideo(portrait, metadata) ==
  IF portrait /\ metadata.Width > metadata.Height
  THEN [Width |-> metadata.Height, Height |-> metadata.Width]
  ELSE [Width |-> metadata.Width, Height |-> metadata.Height]

\* The tail of Templater.Process on a job with outro lines: the main segment
\* of a 2x2 or 3x1 composition, or of a 1x1 job whose one cell OptimizeVideo
\* fitted from a file of w x h, then the title card and the concat list.  A
\* landscape source on a forced-portrait platform reaches OptimizeVideo as
\* the file ApplyPlatformCrop wrote, and a 1x1 job is taken on the sources
\* that are not cropped.
Fit_createOutroVideo ==
  /\ fit = FitIdle
  /\ \E type \in {"1x1", "2x2", "3x1"}, plat \in Platforms, w \in Sides, h \in Sides,
        format \in OutputFormats :
       ((type = "1x1" /\ plat.forcePortrait) => w <= h) /\
       LET cellPlan == OptimizeVideoFit(plat, w, h)
           inputs == [i \in 1..RequiredInputs(type) |->
                        [Width |-> cellPlan.frameWidth, Height |-> cellPlan.frameHeight]]
           main == IF type = "2x2" THEN process2x2Template(inputs).frame
                   ELSE IF type = "3x1" THEN process3x1Template(inputs).frame
                   ELSE inputs[1]
           outputFormat == IF ToLower(format) = "" THEN "webm" ELSE ToLower(format)
       IN  fit' = [phase |-> "outro", fn |-> "createOutroVideo", templateType |-> type,
                   plat |-> plat, format |-> format,
                   main |-> main,
                   mainCodec |-> IF type = "1x1" THEN "default" ELSE VideoCodec(outputFormat),
                   outro |-> createOutroVideo(plat.forcePortrait, main),
                   outroCodec |-> VideoCodec(format),
                   concat |-> <<"main", "outro">>]
  /\ UNCHANGED <<jobVars, ovVars, split, reg>>

FitNext ==
  \/ Fit_createOutroVideo
  \/ Fit_processTemplate
  \/ Fit_extractBitrateValue
  \/ Fit_ProcessForPlatform
  \/ Fit_OptimizeVideo
  \/ Fit_optimizeVideo

SpecFit == Init /\ [][FitNext]_vars

fitDone == fit.phase = "done"
IsEvenAtLeastTwo(x) == x >= 2 /\ x % 2 = 0
\* the target box, as given or with its sides swapped
IsBox(w, h, box) ==
  \/ (w = box.Width /\ h = box.Height)
  \/ (w = box.Height /\ h = box.Width)

\* C7: for every source size with positive width and height and every target
\* box, the scaled content width and height are even and at least 2, and when
\* padding is applied the padded frame is the target box.
C7_FitEvenAtLeastTwo ==
  (fitDone /\ fit.srcWidth > 0 /\ fit.srcHeight > 0 /\ fit.plan.kind # "crop") =>
    /\ IsEvenAtLeastTwo(fit.plan.scaleWidth)
    /\ IsEvenAtLeastTwo(fit.plan.scaleHeight)
    /\ fit.plan.kind = "pad" => IsBox(fit.plan.frameWidth, fit.plan.frameHeight, fit.box)

\* C8: for every platform whose ForcePortrait() is true and every source size
\* of positive width and height, the final frame of ProcessForPlatform is at
\* least as high as it is wide.
C8_ForcePortraitYieldsPortrait ==
  (fitDone /\ fit.fn = "ProcessForPlatform" /\ fit.plat.forcePortrait
     /\ fit.srcWidth > 0 /\ fit.srcHeight > 0) =>
    fit.plan.frameHeight >= fit.plan.frameWidth

platformDriven == fitDone /\ fit.fn \in {"ProcessForPlatform", "OptimizeVideo"}

\* C9 as stated: whenever the bitrate probe succeeds, with any value including
\* 0, the target bitrate is at most 1.05 times the probed bitrate.
C9_CapForEveryProbedValue ==
  (platformDriven /\ fit.probe.ok) =>
    fit.targetBitrate * 100 <= fit.probe.bitrate * 105

\* C9 as amended: whenever the bitrate probe succeeds with a value greater than
\* 0, the target bitrate, and the value of the bitrate string handed to the
\* engine, are at most 1.05 times the probed bitrate.
C9_CapForPositiveProbe ==
  (platformDriven /\ fit.probe.ok /\ fit.probe.bitrate > 0) =>
    /\ fit.targetBitrate * 100 <= fit.probe.bitrate * 105
    /\ Denotes(fit.bitrateStr) <= fit.targetBitrate

\* a 2M platform on a source probed at 1904761 bps: the plan is capped at
\* 1999999 bps, below the platform's own bitrate
C9_Witness ==
  /\ platformDriven /\ fit.probe.ok /\ fit.probe.bitrate = 1904761
  /\ fit.plat.videoBitrate = Bitrate(2, "M")
  /\ fit.targetBitrate = 1999999

(***************************************************************************)
(* The input counts of the template switch.                                *)
(***************************************************************************)
\* a job that has come as far as the switch on the template type
atSwitch == entry # "none" /\ Len(givenPaths) > 0 /\ tempDir # "none"
rejected == pc = "returned" /\ result = "input_count" /\ engineLog = <<>>
accepted == result \notin {"input_count", "unsupported_template"}

\* C11 as stated: a 2x2 request is rejected with the input-count error when it
\* is given 3 inputs and when it is given 5, and accepted when given 4; a 1x1
\* request with 2 inputs is truncated to 1 input and proceeds.
C11_RejectsThreeAndFive ==
  atSwitch =>
    /\ (templateType = "2x2" /\ Len(givenPaths) \in {3, 5}) => rejected
    /\ (templateType = "2x2" /\ Len(givenPaths) = 4) =>
         (accepted /\ inputPaths = givenPaths)
    /\ (templateType = "1x1" /\ Len(givenPaths) = 2) =>
         (accepted /\ inputPaths = <<givenPaths[1]>>)

\* C11 as amended: a 2x2 request is rejected with the input-count error when it
\* is given 3 inputs, accepted when given 4, and when given 5 it is truncated to
\* its first 4 inputs and proceeds; a 1x1 request with 2 inputs is truncated to
\* 1 input and proceeds.
C11_RejectsThreeTruncatesFive ==
  atSwitch =>
    /\ (templateType = "2x2" /\ Len(givenPaths) = 3) => rejected
    /\ (templateType = "2x2" /\ Len(givenPaths) = 4) =>
         (accepted /\ inputPaths = givenPaths)
    /\ (templateType = "2x2" /\ Len(givenPaths) = 5) =>
         (accepted /\ inputPaths = SubSeq(givenPaths, 1, 4))
    /\ (templateType = "1x1" /\ Len(givenPaths) = 2) =>
         (accepted /\ inputPaths = <<givenPaths[1]>>)

\* a 2x2 job given five inputs that ran to success on the first four
C11_Witness ==
  /\ pc = "returned" /\ result = "ok"
  /\ templateType = "2x2" /\ Len(givenPaths) = 5
  /\ optimizedPaths = SubSeq(givenPaths, 1, 4)

(***************************************************************************)
(* SpecSplit: one split job.  Times are counted in ticks, TicksPerSecond   *)
(* to the second, so that durations and skip offsets may have a fractional *)
(* part; a chunk duration is a whole number of seconds.                    *)
(***************************************************************************)
\* metadata.Duration, in ticks
SourceDurations == 0..MaxDurationTicks \cup {47 * TicksPerSecond, 45 * TicksPerSecond + 1}
\* what parseSkipDuration returns, in ticks
SkipOffsets == {0, 1, TicksPerSecond}
\* opts.ChunkDuration, in seconds: the flag is an int that nothing validates
ChunkDurations == {-2, -1, 0} \cup 1..MaxChunk \cup {15, 100}
\* the sources and chunk durations of the jobs explored: the chunk durations of
\* 1..MaxChunk cut the sources of up to MaxDurationTicks, and every other
\* chunk duration cuts every source
IsSplitInput(dur, chunk) == dur \in 0..MaxDurationTicks \/ chunk \notin 1..MaxChunk

\* the platform of a split job: none (TargetPlatform is ""), a name that is not
\* registered, or a registered platform
SplitPlatforms == {"", "unknown"} \cup {plat.name : plat \in Platforms}
IsRegistered(name) == \E plat \in Platforms : plat.name = name

\* GetMaxDuration() of the registered platforms, in seconds
GetMaxDuration(name) ==
  CASE name = "instagram-reel" -> 90
    [] name = "tiktok" -> 180
    [] OTHER -> 300

\* int(duration), for the positive duration the callers pass, given in ticks
IntSeconds(ticks) == ticks \div TicksPerSecond

\* Go's / and % on ints, for a dividend that is not negative and a divisor
\* that is not 0: the quotient is rounded towards zero and the remainder has
\* the sign of the dividend
GoQuotient(a, b) == IF b > 0 THEN a \div b ELSE -(a \div (-b))
GoRemainder(a, b) == a - b * GoQuotient(a, b)

\* numChunks := int(duration) / chunk; if int(duration) % chunk != 0 { numChunks++ }
NumChunks(duration, chunk) ==
  GoQuotient(IntSeconds(duration), chunk)
    + (IF GoRemainder(IntSeconds(duration), chunk) # 0 THEN 1 ELSE 0)

\* startTime := float64(i*chunk) + skipSeconds, in ticks
StartTime(i, chunk, skip) == i * chunk * TicksPerSecond + skip

\* One engine invocation of a split job: ss is the start in ticks; t is the
\* duration bound in seconds, 0 when no t is passed.
Segment(ss, t) == [ss |-> ss, t |-> t]

\* Splitter.Process hands opts.ChunkDuration to ProcessForPlatform for every
\* chunk, and ProcessForPlatform passes t whenever duration > 0
ProcessBound(i, numChunks, chunk) == IF chunk > 0 THEN chunk ELSE 0
\* SplitVideo passes t on every chunk but the last
SplitVideoBound(i, numChunks, chunk) == IF i < numChunks - 1 THEN chunk ELSE 0

\* What a split job has done outside its own memory, in order: the probe of
\* the input, the creation of the output directory, the engine runs (copy,
\* reencode, encode) and the probe of each chunk written.  An engine run is
\* "running" from its start to its return.
IoEvent(op, chunk, status) == [op |-> op, chunk |-> chunk, status |-> status]
Probed(ok) == IoEvent("probe", 0, IF ok THEN "ok" ELSE "failed")
MadeDir(ok) == IoEvent("mkdir", 0, IF ok THEN "ok" ELSE "failed")
\* the last event of the log, closed with the status the engine returned
Closed(io, ok) ==
  [io EXCEPT ![Len(io)].status = IF ok THEN "ok" ELSE "failed"]

\* stream.OverWriteOutput().Run() and ProcessForPlatform return when the
\* engine has ended: the caller stands at the call until then
RunDetached(awaiting) == "loop"
RunAwaited(awaiting) == awaiting

\* the start of an engine run on chunk split.i
SplitRun(op, awaiting) ==
  split' = [split EXCEPT !.pc = RunAwaited(awaiting),
                         !.inFlight = @ + 1,
                         !.io = Append(@, IoEvent(op, split.i, "running"))]

SplitReturn(res) == split' = [split EXCEPT !.pc = "returned", !.result = res]

\* the chunk split.i is written as seg: the next iteration, or the return
SplitChunkDone(seg, io) ==
  LET last == split.i + 1 >= split.numChunks
  IN  split' = [split EXCEPT !.segments = Append(@, seg),
                             !.i = @ + 1,
                             !.io = io,
                             !.inFlight = @ - 1,
                             !.pc = IF last THEN "returned" ELSE "loop",
                             !.result = IF last THEN "ok" ELSE "none"]

\* The job once its options are read: the loop if there are chunks to make,
\* and the return of success if there are none.
SplitStart(name, platform, dur, skip, chunk, io) ==
  LET numChunks == NumChunks(dur - skip, chunk)
  IN  split' = [pc |-> IF numChunks > 0 THEN "loop" ELSE "returned",
                result |-> IF numChunks > 0 THEN "none" ELSE "ok",
                entry |-> name, platform |-> platform,
                duration |-> dur, skip |-> skip, chunk |-> chunk,
                numChunks |-> numChunks, i |-> 0, segments |-> <<>>,
                io |-> io, inFlight |-> 0]

SplitFailed(name, res, platform, dur, skip, chunk, io) ==
  split' = [pc |-> "returned", result |-> res, entry |-> name, platform |-> platform,
            duration |-> dur, skip |-> skip, chunk |-> chunk,
            numChunks |-> 0, i |-> 0, segments |-> <<>>,
            io |-> io, inFlight |-> 0]

\* SplitVideo up to its loop
SplitVideo_Begin ==
  /\ split = SplitIdle
  /\ \E dur \in SourceDurations, skip \in SkipOffsets, chunk \in ChunkDurations,
        platform \in {"", "unknown", "reddit"},
        metadataOk \in BOOLEAN, mkdirOk \in BOOLEAN, skipOk \in BOOLEAN :
       IsSplitInput(dur, chunk) /\
       LET Failed(res, io) == SplitFailed("SplitVideo", res, platform, dur, skip, chunk, io)
           ready == <<Probed(TRUE), MadeDir(TRUE)>>
       IN  IF ~metadataOk THEN Failed("metadata_failed", <<Probed(FALSE)>>)
           ELSE IF ~mkdirOk THEN Failed("mkdir_failed", <<Probed(TRUE), MadeDir(FALSE)>>)
           ELSE IF ~skipOk THEN Failed("skip_invalid", ready)
           ELSE IF dur - skip <= 0 THEN Failed("skip_exceeds_duration", ready)
           ELSE IF chunk = 0 THEN Failed("panic_divide_by_zero", ready)
           ELSE IF platform = "unknown" THEN Failed("unsupported_platform", ready)
           ELSE SplitStart("SplitVideo", platform, dur, skip, chunk, ready)
  /\ UNCHANGED <<jobVars, ovVars, fit, reg>>

\* an iteration of SplitVideo's loop starts the stream copy of the chunk
SplitVideo_Copy ==
  /\ split.pc = "loop" /\ split.entry = "SplitVideo"
  /\ SplitRun("copy", "copying")
  /\ UNCHANGED <<jobVars, ovVars, fit, reg>>

\* the stream copy returns: the chunk is made, or the re-encode is to be tried
SplitVideo_Copied ==
  /\ split.pc = "copying"
  /\ \E copyOk \in BOOLEAN :
       LET seg == Segment(StartTime(split.i, split.chunk, split.skip),
                          SplitVideoBound(split.i, split.numChunks, split.chunk))
       IN  IF copyOk THEN SplitChunkDone(seg, Closed(split.io, TRUE))
           ELSE split' = [split EXCEPT !.pc = "fallback",
                                       !.inFlight = @ - 1,
                                       !.io = Closed(@, FALSE)]
  /\ UNCHANGED <<jobVars, ovVars, fit, reg>>

\* the re-encode of the chunk whose stream copy failed starts
SplitVideo_Reencode ==
  /\ split.pc = "fallback"
  /\ SplitRun("reencode", "reencoding")
  /\ UNCHANGED <<jobVars, ovVars, fit, reg>>

\* the re-encode returns: the chunk is made, or the job fails
SplitVideo_Chunk ==
  /\ split.pc = "reencoding"
  /\ \E reencodeOk \in BOOLEAN :
       LET seg == Segment(StartTime(split.i, split.chunk, split.skip),
                          SplitVideoBound(split.i, split.numChunks, split.chunk))
       IN  IF reencodeOk THEN SplitChunkDone(seg, Closed(split.io, TRUE))
           ELSE split' = [split EXCEPT !.pc = "returned",
                                       !.result = "chunk_failed",
                                       !.inFlight = @ - 1,
                                       !.io = Closed(@, FALSE)]
  /\ UNCHANGED <<jobVars, ovVars, fit, reg>>

\* if s.platform != nil { if s.opts.ChunkDuration > s.platform.GetMaxDuration() {
PlatformMaximumIgnored(platform, chunk) == FALSE
ExceedsPlatformMaximum(platform, chunk) ==
  platform # "" /\ chunk > GetMaxDuration(platform)

\* Splitter.Process up to its loop
Splitter_Begin ==
  /\ split = SplitIdle
  /\ \E dur \in SourceDurations, skip \in SkipOffsets, chunk \in ChunkDurations,
        platform \in SplitPlatforms,
        formatOk \in BOOLEAN, metadataOk \in BOOLEAN, mkdirOk \in BOOLEAN,
        skipOk \in BOOLEAN :
       IsSplitInput(dur, chunk) /\
       LET Failed(res, io) == SplitFailed("Process", res, platform, dur, skip, chunk, io)
           ready == <<Probed(TRUE), MadeDir(TRUE)>>
       IN  IF ~formatOk THEN Failed("unsupported_format", <<>>)
           ELSE IF platform # "" /\ ~IsRegistered(platform)
           THEN Failed("platform_not_found", <<>>)
           ELSE IF ~metadataOk THEN Failed("metadata_failed", <<Probed(FALSE)>>)
           ELSE IF ~skipOk THEN Failed("skip_invalid", <<Probed(TRUE)>>)
           ELSE IF dur - skip <= 0 THEN Failed("skip_exceeds_duration", <<Probed(TRUE)>>)
           ELSE IF ~mkdirOk THEN Failed("mkdir_failed", <<Probed(TRUE), MadeDir(FALSE)>>)
           ELSE IF chunk = 0 THEN Failed("panic_divide_by_zero", ready)
           ELSE IF ExceedsPlatformMaximum(platform, chunk)
           THEN Failed("chunk_exceeds_platform_maximum", ready)
           ELSE SplitStart("Process", platform, dur, skip, chunk, ready)
  /\ UNCHANGED <<jobVars, ovVars, fit, reg>>

\* an iteration of Splitter.Process's loop: ProcessForPlatform on the chunk
\* starts, or the job returns because no platform is set
Splitter_Run ==
  /\ split.pc = "loop" /\ split.entry = "Process"
  /\ IF split.platform = "" THEN SplitReturn("platform_is_nil")
     ELSE SplitRun("encode", "encoding")
  /\ UNCHANGED <<jobVars, ovVars, fit, reg>>

\* ProcessForPlatform returns, and GetVideoMetadata probes the file it wrote
Splitter_Chunk ==
  /\ split.pc = "encoding"
  /\ \E engineOk \in BOOLEAN, metadataOk \in BOOLEAN :
       LET seg == Segment(StartTime(split.i, split.chunk, split.skip),
                          ProcessBound(split.i, split.numChunks, split.chunk))
           probed == Append(Closed(split.io, TRUE),
                            IoEvent("probe", split.i, IF metadataOk THEN "ok" ELSE "failed"))
       IN  IF ~engineOk
           THEN split' = [split EXCEPT !.pc = "returned",
                                       !.result = "chunk_failed",
                                       !.inFlight = @ - 1,
                                       !.io = Closed(@, FALSE)]
           ELSE IF ~metadataOk
           THEN split' = [split EXCEPT !.segments = Append(@, seg),
                                       !.pc = "returned",
                                       !.result = "metadata_failed",
                                       !.inFlight = @ - 1,
                                       !.io = probed]
           ELSE SplitChunkDone(seg, probed)
  /\ UNCHANGED <<jobVars, ovVars, fit, reg>>

SplitNext ==
  \/ SplitVideo_Begin
  \/ SplitVideo_Copy
  \/ SplitVideo_Copied
  \/ SplitVideo_Reencode
  \/ SplitVideo_Chunk
  \/ Splitter_Begin
  \/ Splitter_Run
  \/ Splitter_Chunk

SpecSplit == Init /\ [][SplitNext]_vars

(***************************************************************************)
(* Properties of the split job.                                            *)
(***************************************************************************)
splitSucceeded == split.pc = "returned" /\ split.result = "ok"
\* ceil(D / c) for a remaining duration of D ticks and a chunk of c seconds
CeilChunks(D, c) == (D + c * TicksPerSecond - 1) \div (c * TicksPerSecond)
\* the ticks of the source a segment takes: from its start to its bound, or to
\* the end of the source when it has no bound
Covered(seg, dur) ==
  {x \in seg.ss..(dur - 1) : seg.t = 0 \/ x < seg.ss + seg.t * TicksPerSecond}

\* C12: a split job that succeeds on a remaining duration D and a positive
\* chunk duration c has produced ceil(D / c) segments, each but the last bounded to c
\* seconds, and the last without a duration bound.
C12_CeilChunksLastOpen ==
  (splitSucceeded /\ split.chunk > 0) =>
    LET n == Len(split.segments)
    IN  /\ n = CeilChunks(split.duration - split.skip, split.chunk)
        /\ \A k \in 1..n : split.segments[k].t = IF k < n THEN split.chunk ELSE 0

\* C13: in a split job that succeeds on a positive chunk duration c, segment i (from 0) starts at
\* skipOffset + i*c, consecutive segments do not overlap, and together the
\* segments take exactly the ticks of [skipOffset, sourceDuration).
C13_SegmentsPartitionSource ==
  (splitSucceeded /\ split.chunk > 0) =>
    LET n == Len(split.segments)
        cov(k) == Covered(split.segments[k], split.duration)
    IN  /\ \A k \in 1..n :
             split.segments[k].ss = split.skip + (k - 1) * split.chunk * TicksPerSecond
        /\ \A j, k \in 1..n : j < k => cov(j) \cap cov(k) = {}
        /\ UNION {cov(k) : k \in 1..n} = split.skip..(split.duration - 1)

(***************************************************************************)
(* SpecRegistry: the platform registry.  reg.platforms is the map, a       *)
(* function from the registered names; reg.log is every profile handed to  *)
(* Register so far, in order; reg.call is the last call and what it        *)
(* returned.                                                               *)
(***************************************************************************)
RegistryNames == {"reddit", "tiktok"}
\* the profiles handed to Register: several distinct ones may bear one name
Profiles == [name : RegistryNames, id : 1..MaxProfileIds]
\* the names asked of Get
LookupNames == RegistryNames \cup {"twitter"}

\* platforms[p.GetName()] = p
RegisterKeepFirst(platforms, p) == platforms @@ (p.name :> p)
RegisterInto(platforms, p) == (p.name :> p) @@ platforms

\* p, ok := platforms[name]
Lookup(platforms, name) ==
  IF name \in DOMAIN platforms
  THEN [ok |-> TRUE, profile |-> platforms[name]]
  ELSE [ok |-> FALSE]

\* the orders in which a range over the map may yield its keys
KeyOrders(platforms) ==
  LET keys == DOMAIN platforms
      n == Cardinality(keys)
  IN  {order \in [1..n -> keys] : \A j, k \in 1..n : j # k => order[j] # order[k]}

Register ==
  /\ Len(reg.log) < MaxRegisterCalls
  /\ \E p \in Profiles :
       reg' = [platforms |-> RegisterInto(reg.platforms, p),
               log |-> Append(reg.log, p),
               call |-> [op |-> "Register", before |-> reg.platforms]]
  /\ UNCHANGED <<jobVars, ovVars, fit, split>>

Get ==
  /\ \E name \in LookupNames :
       reg' = [reg EXCEPT !.call = [op |-> "Get", name |-> name,
                                   before |-> reg.platforms,
                                   returned |-> Lookup(reg.platforms, name)]]
  /\ UNCHANGED <<jobVars, ovVars, fit, split>>

GetSupportedPlatforms ==
  /\ \E names \in KeyOrders(reg.platforms) :
       reg' = [reg EXCEPT !.call = [op |-> "GetSupportedPlatforms",
                                   before |-> reg.platforms,
                                   returned |-> names]]
  /\ UNCHANGED <<jobVars, ovVars, fit, split>>

RegistryNext ==
  \/ Register
  \/ Get
  \/ GetSupportedPlatforms

SpecRegistry == Init /\ [][RegistryNext]_vars

\* the names registered so far, and the profile last registered under a name
RegisteredNames == {reg.log[k].name : k \in 1..Len(reg.log)}
LastRegistered(name) ==
  LET at == {k \in 1..Len(reg.log) : reg.log[k].name = name}
  IN  reg.log[CHOOSE k \in at : \A j \in at : j <= k]

\* C14: after any sequence of Register and Get calls, Get(name) returns the
\* profile most recently registered under name, Get of a name never registered
\* returns the not-found error and leaves the registry as it was, and
\* GetSupportedPlatforms returns every registered name exactly once.
C14_RegistryContract ==
  /\ reg.call.op = "Get" =>
       /\ reg.platforms = reg.call.before
       /\ IF reg.call.name \in RegisteredNames
          THEN reg.call.returned = [ok |-> TRUE, profile |-> LastRegistered(reg.call.name)]
          ELSE ~reg.call.returned.ok
  /\ reg.call.op = "GetSupportedPlatforms" =>
       /\ {reg.call.returned[k] : k \in 1..Len(reg.call.returned)} = RegisteredNames
       /\ Len(reg.call.returned) = Cardinality(RegisteredNames)

\* a Get that returned the second of two profiles registered under one name
C14_Witness ==
  /\ reg.call.op = "Get" /\ reg.call.returned.ok
  /\ \E j, k \in 1..Len(reg.log) :
       /\ j < k
       /\ reg.log[j].name = reg.call.name /\ reg.log[k].name = reg.call.name
       /\ reg.log[j] # reg.log[k]
       /\ reg.call.returned.profile = reg.log[k]

(***************************************************************************)
(* The escalation of the encode loop, attempt by attempt.                  *)
(***************************************************************************)
\* attempt k of this run produced a file over the ceiling with a CRF below 28,
\* and was not the third
ovCallsForRetry(k) == ovSizes[k] > ovTarget /\ ovCrfs[k] < 28 /\ k < 3

\* C15: the first attempt uses CRF 18; attempt k+1 is made if and only if
\* attempt k's output was over the ceiling, its CRF below 28 and k < 3, and it
\* uses CRF min(CRF_k + 5, 28).  A run whose every output is over the ceiling
\* uses exactly 18, 23, 28, and no attempt follows one within the ceiling.
C15_EscalationRule ==
  /\ Len(ovCrfs) >= 1 => ovCrfs[1] = 18
  /\ Len(ovSizes) <= Len(ovCrfs) /\ Len(ovCrfs) <= Len(ovSizes) + 1
  /\ \A k \in 1..(Len(ovCrfs) - 1) :
       /\ ovCallsForRetry(k)
       /\ ovCrfs[k + 1] = IF ovCrfs[k] + 5 < 28 THEN ovCrfs[k] + 5 ELSE 28
  /\ (ovResult = "ok" /\ Len(ovCrfs) >= 1) =>
       /\ Len(ovSizes) = Len(ovCrfs)
       /\ ~ovCallsForRetry(Len(ovCrfs))
  /\ (ovResult = "ok" /\ ovAllOversized) => ovCrfs = <<18, 23, 28>>

\* a run whose first output was over the ceiling and whose second, at CRF 23,
\* was within it: no third attempt was made
C15_Witness ==
  /\ ovResult = "ok" /\ ovCrfs = <<18, 23>>
  /\ ovSizes[1] > ovTarget /\ ovSizes[2] <= ovTarget

\* an encode invocation of this run of optimizeVideo has failed
ovEncodeFailed == Len(ovCrfs) > Len(ovSizes)

\* C16: a failed engine invocation on any attempt ends the encode loop at once
\* with an error, which the job returns: the failed attempt is the last engine
\* invocation, and every attempt before it was followed by another only because
\* its output was over the ceiling.
C16_FailureEndsLoop ==
  ovEncodeFailed =>
    /\ Len(ovCrfs) = Len(ovSizes) + 1
    /\ ovResult = "error"
    /\ pc = "returned" /\ result = "optimize_failed"
    /\ engineLog[Len(engineLog)][1] = "optimize"
    /\ \A k \in 1..Len(ovSizes) : ovSizes[k] > ovTarget

\* a run whose first output was over the ceiling and whose second encode failed
C16_Witness ==
  /\ ovEncodeFailed /\ ovResult = "error"
  /\ Len(ovCrfs) = 2 /\ ovSizes[1] > ovTarget

(***************************************************************************)
(* The tightening re-encode of the composed artifact.                      *)
(***************************************************************************)
\* the composition has been invoked, and since then nothing but the re-encode
composedThenOnlyReencode ==
  \E k \in 1..Len(engineLog) :
    /\ engineLog[k][1] = "compose"
    /\ \A j \in (k + 1)..Len(engineLog) : engineLog[j][1] = "reencode"

\* C17: in a template job the re-encode of the composed artifact runs if and
\* only if the composed output is larger than MaxTotalFileSize, at most once,
\* and only after every per-cell encode and the composition: a job never ends
\* with an oversized artifact at the output path that was not re-encoded.
C17_TightenIffOversized ==
  /\ tightenings <= 1
  /\ pc = "tighten" => (outFile.exists /\ outFile.size > MaxTotalFileSize)
  /\ (pc = "tighten" \/ tightenings = 1) =>
       /\ Len(optimizedPaths) = Len(inputPaths)
       /\ composedThenOnlyReencode
  /\ (pc = "returned" /\ outFile.exists /\ outFile.size > MaxTotalFileSize) =>
       tightenings = 1

(***************************************************************************)
(* The crop plan of ProcessForPlatform.                                    *)
(***************************************************************************)
\* ProcessForPlatform was applied to a landscape source on a platform that
\* forces portrait
forcedLandscape ==
  /\ fitDone /\ fit.fn = "ProcessForPlatform"
  /\ fit.plat.forcePortrait /\ fit.srcWidth > fit.srcHeight

\* C18: for a platform that forces portrait and a landscape source the plan of
\* ProcessForPlatform is a crop of width floor(height*9/16) over the full
\* height, at horizontal offset floor((width - cropWidth)/2) and vertical
\* offset 0, followed by a scale to the platform's maximum dimensions, with no
\* pad; and no plan of any fit has both a crop and a pad.
C18_CropPlanNeverPads ==
  /\ forcedLandscape =>
       /\ fit.plan.kind = "crop"
       /\ fit.plan.cropWidth = (fit.srcHeight * 9) \div 16
       /\ fit.plan.cropHeight = fit.srcHeight
       /\ fit.plan.cropX = (fit.srcWidth - fit.plan.cropWidth) \div 2
       /\ fit.plan.cropY = 0
       /\ fit.plan.scaleWidth = fit.plat.maxWidth
       /\ fit.plan.scaleHeight = fit.plat.maxHeight
  /\ fitDone =>
       /\ fit.plan.kind \in {"crop", "scale", "pad"}
       /\ fit.plan.kind = "crop" =>
            (fit.plan.frameWidth = fit.plan.scaleWidth /\ fit.plan.frameHeight = fit.plan.scaleHeight)
       /\ fit.plan.kind # "crop" => (fit.plan.cropWidth = 0 /\ fit.plan.cropHeight = 0)

\* a 3840x2160 source on a 1080x1920 platform that forces portrait: cropped to
\* 1215x2160 at offset 1312 and scaled to 1080x1920
C18_Witness ==
  /\ forcedLandscape /\ fit.srcWidth = 3840 /\ fit.srcHeight = 2160
  /\ fit.plat.maxWidth = 1080 /\ fit.plat.maxHeight = 1920
  /\ fit.plan.kind = "crop" /\ fit.plan.cropWidth = 1215 /\ fit.plan.cropX = 1312
  /\ fit.plan.scaleWidth = 1080 /\ fit.plan.scaleHeight = 1920

\* C19 as stated: the cropped region has aspect ratio exactly 9:16, that is
\* cropWidth * 16 = sourceHeight * 9, for every source height.
C19_CropExactlyNineToSixteen ==
  forcedLandscape => fit.plan.cropWidth * 16 = fit.srcHeight * 9

\* C19 as amended: the crop width is sourceHeight * 9 / 16 rounded down, so
\* cropWidth * 16 <= sourceHeight * 9 < (cropWidth + 1) * 16, and the aspect
\* ratio is exactly 9:16 when the source height is divisible by 16.
C19_CropNineToSixteenRoundedDown ==
  forcedLandscape =>
    /\ fit.plan.cropWidth * 16 <= fit.srcHeight * 9
    /\ fit.srcHeight * 9 < (fit.plan.cropWidth + 1) * 16
    /\ fit.srcHeight % 16 = 0 => fit.plan.cropWidth * 16 = fit.srcHeight * 9

\* a source of height 1080, which 16 does not divide: the crop is 607 wide
C19_Witness ==
  /\ forcedLandscape /\ fit.srcHeight = 1080
  /\ fit.plan.cropWidth = 607 /\ fit.plan.cropWidth * 16 < fit.srcHeight * 9

\* C20: when the probed metadata of a source has width <= 0 or height <= 0, the
\* job fails before any fit is computed: no fit is ever computed from a zero or
\* negative dimension.
C20_NoFitFromDegenerateSource ==
  fitDone => (fit.srcWidth > 0 /\ fit.srcHeight > 0)

(***************************************************************************)
(* The platform bitrate read from the platform's bitrate string.           *)
(***************************************************************************)
bitrateParsed == fit.phase = "parsed"

\* C21: the platform-driven target bitrate extractBitrateValue(s) * 1000000
\* equals the value the string denotes under both suffixes (N followed by M is
\* N*1000000 bps, N followed by k is N*1000 bps), and is 2000000 bps whenever
\* the numeric part does not parse.
C21_PlatformBitrateIsDenoted ==
  bitrateParsed =>
    fit.platformBitrate = IF fit.str.parses THEN Denotes(fit.str) ELSE 2000000

(***************************************************************************)
(* The composition graph of the 2x2 and 3x1 templates.                     *)
(***************************************************************************)
composed == fit.phase = "composed"

\* C22: with the canonical output resolution 1280x720, every cell of a 2x2
\* composition is scaled to 640x360 and the composed frame is 1280x720; every
\* cell of a 3x1 composition is a third of the canonical width by the full
\* canonical height: the size each cell is scaled to in the composition graph
\* is the configured per-cell target.
C22_CellsScaledToCellTarget ==
  composed =>
    /\ \A i \in DOMAIN fit.scaled : fit.scaled[i] = fit.targetDims
    /\ fit.templateType = "2x2" =>
         /\ \A i \in DOMAIN fit.scaled : fit.scaled[i] = [Width |-> 640, Height |-> 360]
         /\ fit.frame = [Width |-> 1280, Height |-> 720]
    /\ fit.templateType = "3x1" =>
         \A i \in DOMAIN fit.scaled :
           fit.scaled[i] = [Width |-> OutputWidth \div 3, Height |-> OutputHeight]

(***************************************************************************)
(* The engine runs of a split job.                                         *)
(***************************************************************************)
IsEngineRun(e) == e.op \in {"copy", "reencode", "encode"}
engineRuns == SelectSeq(split.io, IsEngineRun)
splitReturned == split.pc = "returned"
\* a job that has read its options and has chunks to make
splitLooping == split.pc # "idle" /\ split.numChunks > 0

\* C23: in a split job with no target platform, each segment is first tried as
\* a stream copy; a re-encode of a segment is run if and only if the copy of
\* that same segment failed; and the job fails on a segment only when its
\* re-encode has failed as well.
C23_CopyThenReencodeOnFailure ==
  (splitLooping /\ split.platform = "") =>
    LET runs == engineRuns
        n == Len(runs)
    IN  /\ \A k \in 1..n :
             /\ runs[k].op \in {"copy", "reencode"}
             /\ runs[k].op = "reencode" <=>
                  (k > 1 /\ runs[k-1].op = "copy" /\ runs[k-1].status = "failed"
                     /\ runs[k-1].chunk = runs[k].chunk)
             /\ (runs[k].op = "copy" /\ runs[k].status = "failed") =>
                  (k < n \/ split.pc = "fallback")
        /\ (splitReturned /\ split.result = "ok") =>
             \A i \in 0..(split.numChunks - 1) :
               \E k \in 1..n : runs[k].chunk = i /\ runs[k].status = "ok"
        /\ (splitReturned /\ split.result # "ok") =>
             (n > 0 /\ runs[n].op = "reencode" /\ runs[n].status = "failed")

(***************************************************************************)
(* The unsupported output format of a template job.                        *)
(***************************************************************************)
\* C24: a template job whose output format is not webm or mp4 fails before any
\* file I/O: when the unsupported-format error is returned, no input has been
\* probed, no engine has been invoked and no directory has been created.
C24_FormatFailsBeforeIO ==
  (pc = "returned" /\ result = "unsupported_format") =>
    (engineLog = <<>> /\ tempDir = "none")

outroMade == fit.phase = "outro"

\* C26: whenever an outro is appended, the outro has the frame width and
\* height of the main segment as probed, and for a composed template its video
\* codec, on every platform (the forced-portrait ones with a main segment wider
\* than tall included) and for every template type; and the concat list names
\* the main segment before the outro.
C26_OutroMatchesMainSegment ==
  outroMade =>
    /\ fit.outro = fit.main
    /\ fit.templateType # "1x1" => fit.outroCodec = fit.mainCodec
    /\ fit.concat = <<"main", "outro">>

(***************************************************************************)
(* The scaled content inside the target box.                               *)
(***************************************************************************)
\* the box the scaled content is laid in: the platform's box, as given or
\* with its sides swapped, and the template cell of optimizeVideo
InBox(w, h) ==
  IF fit.fn = "optimizeVideo"
  THEN w <= fit.box.Width /\ h <= fit.box.Height
  ELSE /\ IsBox(fit.plan.frameWidth, fit.plan.frameHeight, fit.box)
       /\ w <= fit.plan.frameWidth /\ h <= fit.plan.frameHeight
FillsBox(w, h) ==
  IF fit.fn = "optimizeVideo"
  THEN w = fit.box.Width /\ h = fit.box.Height
  ELSE w = fit.plan.frameWidth /\ h = fit.plan.frameHeight

\* C27: in the fit that does not crop, for every source of positive width and
\* height and every target box, the scaled content is no wider and no higher
\* than the box (with its sides swapped where the fit swaps them), so that no
\* pad is negative; and a pad is emitted exactly when the scaled size differs
\* from the box.
C27_ScaledContentWithinBox ==
  (fitDone /\ fit.srcWidth > 0 /\ fit.srcHeight > 0 /\ fit.plan.kind # "crop") =>
    /\ InBox(fit.plan.scaleWidth, fit.plan.scaleHeight)
    /\ fit.plan.kind = "pad" <=> ~FillsBox(fit.plan.scaleWidth, fit.plan.scaleHeight)

\* a 720x480 source fitted by OptimizeVideo to the 1920x1080 box of reddit: the
\* content is scaled to 1620x1080 and padded to the box
C27_Witness ==
  /\ fitDone /\ fit.fn = "OptimizeVideo" /\ fit.plat.name = "reddit"
  /\ fit.srcWidth = 720 /\ fit.srcHeight = 480
  /\ fit.plan.kind = "pad"
  /\ fit.plan.scaleWidth = 1620 /\ fit.plan.scaleHeight = 1080
  /\ fit.plan.frameWidth = 1920 /\ fit.plan.frameHeight = 1080

\* C28: for every source whose remaining duration after the skip offset is
\* greater than 0 (less than a second included) and every integer chunk
\* duration (0 and the negative ones included), Splitter.Process ends with an
\* error or with a list of clips that is not empty: it does not return success
\* with no clip, and does not crash on the count of the chunks.
C28_ErrorOrClips ==
  (splitReturned /\ split.entry = "Process" /\ split.duration - split.skip > 0) =>
    /\ split.result # "panic_divide_by_zero"
    /\ split.result = "ok" => split.segments # <<>>

(***************************************************************************)
(* The bitrate strings handed to the engine.                               *)
(***************************************************************************)
\* C29: in ProcessForPlatform, on its crop path and in processNormalVideo,
\* whenever the capped target bitrate is greater than 0 bps (below 1000000 bps
\* included), the string handed to the engine as b:v and maxrate denotes a
\* value greater than 0 and not greater than the capped target, and the
\* bufsize string derived from it denotes a value greater than 0.
C29_BitrateStringPositiveWithinTarget ==
  (fitDone /\ fit.fn = "ProcessForPlatform" /\ fit.targetBitrate > 0) =>
    /\ Denotes(fit.bitrateStr) > 0
    /\ Denotes(fit.bitrateStr) <= fit.targetBitrate
    /\ Denotes(fit.bufsizeStr) > 0

\* C30: Splitter.Process runs no encode and returns no clip when a
\* precondition fails: if the skip offset is greater than or equal to the
\* source duration, or if the chunk duration is greater than the maximum
\* duration of the selected platform, it returns an error before the first
\* chunk is processed.
C30_PreconditionFailsBeforeFirstChunk ==
  (split.pc # "idle" /\ split.entry = "Process"
     /\ (\/ split.skip >= split.duration
         \/ (IsRegistered(split.platform)
               /\ split.chunk > GetMaxDuration(split.platform)))) =>
    /\ splitReturned /\ split.result # "ok"
    /\ engineRuns = <<>>
    /\ split.segments = <<>>

\* chunks of 100 s asked of a 47 s source for instagram-reel, whose maximum
\* is 90 s: the job has returned the error with the directory made and no
\* engine run
C30_Witness ==
  /\ splitReturned /\ split.entry = "Process"
  /\ split.platform = "instagram-reel" /\ split.chunk = 100
  /\ split.duration = 47 * TicksPerSecond /\ split.skip = 0
  /\ split.result = "chunk_exceeds_platform_maximum"
  /\ engineRuns = <<>> /\ split.segments = <<>>

====
